---- MODULE Spec2Model ----
(***************************************************************************)
(* Model of the landing page bootstrapper src/assets/app.js: the language  *)
(* resolver (getLanguage), the resource loader (loadI18n), the schema      *)
(* validator (validateI18n, getPath), the renderer (el, render) and the    *)
(* bootstrap sequence that chains them and reports failures.               *)
(*                                                                         *)
(* Text is a sequence of tokens. A token is one character (" ", "=", "x")  *)
(* or a run of characters that the code only ever handles as a unit        *)
(* ("lang", "{year}", ".json").                                            *)
(***************************************************************************)
EXTENDS Integers, Sequences, FiniteSets, TLC

VARIABLES
  search,    \* window.location.search
  config,    \* window.__APP_CONFIG__
  pc,        \* where the bootstrap sequence stands
  language,  \* the language getLanguage returned
  url,       \* the location loadI18n asked for
  net,       \* what the network did: fetch, status, body
  fetches,   \* number of fetch calls issued
  calls,     \* the steps called so far, in order
  i18n,      \* the document response.json() returned
  rendered,  \* the arguments render was called with
  error,     \* the error the sequence was rejected with
  page,      \* document.title, the children and aria-busy of #app
  console    \* the errors passed to console.error

vars == <<search, config, pc, language, url, net, fetches, calls, i18n,
          rendered, error, page, console>>

(* ------------------------------ bounds --------------------------------- *)

MaxQueryLen == 6

MaxProjects == 2

(* --------------------------- JavaScript values ------------------------- *)

Undefined == [t |-> "undefined"]

Null == [t |-> "null"]

Str(s) == [t |-> "string", s |-> s]

Num(n) == [t |-> "number", n |-> n]

Obj(f) == [t |-> "object", o |-> f]

Arr(a) == [t |-> "array", a |-> a]

\* v == null in JavaScript: true of null and of undefined only.
IsNullish(v) == v.t \in {"undefined", "null"}

\* ToBoolean(v): "" and 0 are falsy, every object and array is truthy.
Truthy(v) ==
  CASE v.t \in {"undefined", "null"} -> FALSE
    [] v.t = "string" -> v.s # <<>>
    [] v.t = "number" -> v.n # "0"
    [] OTHER -> TRUE

\* acc[key] for a non-nullish acc and a key that is no array index and no
\* built-in property: an own property of an object, undefined otherwise.
GetProp(v, key) ==
  IF v.t = "object" /\ key \in DOMAIN v.o THEN v.o[key] ELSE Undefined

RECURSIVE JoinText(_)
\* String(v): the text of a string, the digits of a number, the elements of
\* an array joined by commas (null and undefined elements as empty text).
ToText(v) ==
  CASE v.t = "string" -> v.s
    [] v.t = "number" -> <<v.n>>
    [] v.t = "null" -> <<"null">>
    [] v.t = "undefined" -> <<"undefined">>
    [] v.t = "array" -> JoinText(v.a)
    [] OTHER -> <<"[object Object]">>

JoinText(a) ==
  IF a = <<>> THEN <<>>
  ELSE LET h == IF IsNullish(Head(a)) THEN <<>> ELSE ToText(Head(a))
       IN IF Len(a) = 1 THEN h ELSE h \o <<",">> \o JoinText(Tail(a))

RECURSIVE TrimStart(_)
TrimStart(s) == IF s # <<>> /\ Head(s) = " " THEN TrimStart(Tail(s)) ELSE s

RECURSIVE TrimEnd(_)
TrimEnd(s) ==
  IF s # <<>> /\ s[Len(s)] = " " THEN TrimEnd(SubSeq(s, 1, Len(s) - 1)) ELSE s

\* String.prototype.trim
Trim(s) == TrimEnd(TrimStart(s))

(* --------------------------- getLanguage ------------------------------- *)

\* Index of the first occurrence of tok in s, 0 when there is none.
IndexOf(s, tok) ==
  IF \E i \in 1..Len(s) : s[i] = tok
  THEN CHOOSE i \in 1..Len(s) : s[i] = tok /\ \A j \in 1..(i - 1) : s[j] # tok
  ELSE 0

RECURSIVE Split(_, _)
\* s split on the separator token sep.
Split(s, sep) ==
  LET i == IndexOf(s, sep)
  IN IF i = 0 THEN <<s>>
     ELSE <<SubSeq(s, 1, i - 1)>> \o Split(SubSeq(s, i + 1, Len(s)), sep)

\* Form decoding of a name or a value: "+" is a space, a percent escape is
\* the character it encodes.
FormDecode(s) ==
  [i \in 1..Len(s) |-> CASE s[i] = "+" -> " "
                         [] s[i] = "%20" -> " "
                         [] OTHER -> s[i]]

\* One name=value piece: split at the first "=", a piece without "=" has an
\* empty value.
ParsePair(piece) ==
  LET i == IndexOf(piece, "=")
  IN IF i = 0 THEN [name |-> FormDecode(piece), value |-> <<>>]
     ELSE [name |-> FormDecode(SubSeq(piece, 1, i - 1)),
           value |-> FormDecode(SubSeq(piece, i + 1, Len(piece)))]

\* new URLSearchParams(window.location.search): a leading "?" is dropped,
\* empty pieces are skipped, the pairs keep the order of the query.
URLSearchParams(s) ==
  LET q == IF s # <<>> /\ Head(s) = "?" THEN Tail(s) ELSE s
      pieces == Split(q, "&")
      kept == SelectSeq(pieces, LAMBDA p : p # <<>>)
  IN [i \in 1..Len(kept) |-> ParsePair(kept[i])]

\* params.get(name): the value of the first pair of that name, or null.
ParamsGet(params, name) ==
  IF \E i \in 1..Len(params) : params[i].name = name
  THEN Str(params[CHOOSE i \in 1..Len(params) :
                     /\ params[i].name = name
                     /\ \A j \in 1..(i - 1) : params[j].name # name].value)
  ELSE Null

\* Mutant: the candidate is returned as it was read, not trimmed.
CandidateUntrimmed(s) ==
  LET got == ParamsGet(URLSearchParams(s), <<"lang">>)
  IN IF Truthy(got) THEN got.s ELSE <<>>

\* (params.get('lang') || '').trim()
Candidate(s) ==
  LET got == ParamsGet(URLSearchParams(s), <<"lang">>)
  IN Trim(IF Truthy(got) THEN got.s ELSE <<>>)

\* getLanguage(): the trimmed candidate when it is not empty, else the
\* configured default language when truthy, else 'en'.
getLanguage(s, cfg) ==
  LET candidate == Candidate(s)
  IN IF candidate # <<>> THEN Str(candidate)
     ELSE IF Truthy(cfg) /\ Truthy(GetProp(cfg, "defaultLanguage"))
          THEN GetProp(cfg, "defaultLanguage")
          ELSE Str(<<"en">>)

(* ------------------------------ loadI18n ------------------------------- *)

\* encodeURIComponent: letters and digits are kept, every reserved
\* character becomes its percent escape.
encodeURIComponent(s) ==
  [i \in 1..Len(s) |-> CASE s[i] = " " -> "%20"
                         [] s[i] = "=" -> "%3D"
                         [] s[i] = "+" -> "%2B"
                         [] s[i] = "&" -> "%26"
                         [] s[i] = "?" -> "%3F"
                         [] s[i] = "/" -> "%2F"
                         [] s[i] = "," -> "%2C"
                         [] OTHER -> s[i]]

\* `${basePath}/${encodeURIComponent(language)}.json`
ResourceUrl(cfg, lang) ==
  LET basePath == IF Truthy(cfg) /\ Truthy(GetProp(cfg, "i18nPath"))
                  THEN GetProp(cfg, "i18nPath")
                  ELSE Str(<<"i18n">>)
  IN ToText(basePath) \o <<"/">> \o encodeURIComponent(ToText(lang))
       \o <<".json">>

NoError == [name |-> "none"]

\* The rejection of fetch itself (no response at all).
FetchFailed == [name |-> "TypeError", kind |-> "Failed to fetch"]

\* new Error(`Failed to load i18n resource: ${url} (${response.status})`)
ResourceUnavailable(u, status) ==
  [name |-> "Error", kind |-> "Failed to load i18n resource",
   url |-> u, status |-> status]

\* new Error(`Malformed i18n JSON for language: ${language}`)
MalformedResource(lang) ==
  [name |-> "Error", kind |-> "Malformed i18n JSON for language",
   language |-> ToText(lang)]

\* response.ok: the status is in the range 200-299.
ResponseOk(status) == status >= 200 /\ status <= 299

\* Mutant: the status of the response is not looked at.
StatusErrorIgnored(u, status) == NoError

\* if (!response.ok) throw ...
StatusError(u, status) ==
  IF ~ResponseOk(status) THEN ResourceUnavailable(u, status) ELSE NoError

(* ---------------------------- validateI18n ----------------------------- *)

\* The property name a piece of a dot path spells: the names of the model
\* are one token each, any other text names no property.
KeyOf(piece) == IF Len(piece) = 1 THEN piece[1] ELSE ""

RECURSIVE Walk(_, _)
\* reduce((acc, key) => (acc == null ? acc : acc[key]), object)
Walk(acc, keys) ==
  IF keys = <<>> THEN acc
  ELSE Walk(IF IsNullish(acc) THEN acc ELSE GetProp(acc, KeyOf(Head(keys))),
            Tail(keys))

\* getPath(object, dotPath): the path split on "." and walked key by key.
getPath(object, dotPath) == Walk(object, Split(dotPath, "."))

requiredPaths ==
  << <<"site", ".", "title">>,
     <<"site", ".", "tagline">>,
     <<"sections", ".", "projects">>,
     <<"labels", ".", "visit">>,
     <<"footer", ".", "copyright">>,
     <<"projects">> >>

projectKeys == <<"codename", "description">>

\* new Error(`Missing i18n key: ${path}`)
MissingKey(path) ==
  [name |-> "Error", kind |-> "Missing i18n key", path |-> path]

\* new Error('i18n.projects must be an array')
InvalidShape == [name |-> "Error", kind |-> "i18n.projects must be an array"]

\* new Error(`Project at index ${index} is missing key: ${key}`)
MissingProjectField(index, key) ==
  [name |-> "Error", kind |-> "Project is missing key",
   index |-> index, key |-> key]

\* project[key] with project null: the engine's TypeError.
NullProperty(key) ==
  [name |-> "TypeError", kind |-> "Cannot read properties of null",
   reading |-> key]

\* Mutant: only the first segment of the path is looked up.
PathMissingShallow(doc, path) == IsNullish(GetProp(doc, Head(path)))

\* getPath(i18n, path) == null
PathMissing(doc, path) == IsNullish(getPath(doc, path))

\* The check of one key of one project entry (0-based index); NoError when
\* the key passes.
ProjectKeyError(project, index, key) ==
  IF IsNullish(project) THEN NullProperty(key)
  ELSE LET v == GetProp(project, key)
       IN IF IsNullish(v) \/ Trim(ToText(v)) = <<>>
          THEN MissingProjectField(index, key)
          ELSE NoError

\* The checks of the entries in index order, codename before description:
\* check number c (from 1) is key ((c - 1) % 2) + 1 of entry (c - 1) \div 2.
ProjectsError(entries) ==
  LET n == Len(entries) * Len(projectKeys)
      err(c) == ProjectKeyError(entries[((c - 1) \div Len(projectKeys)) + 1],
                                (c - 1) \div Len(projectKeys),
                                projectKeys[((c - 1) % Len(projectKeys)) + 1])
  IN IF \E c \in 1..n : err(c) # NoError
     THEN err(CHOOSE c \in 1..n :
                /\ err(c) # NoError
                /\ \A d \in 1..(c - 1) : err(d) = NoError)
     ELSE NoError

\* validateI18n(i18n): the error it throws, NoError when it returns.
validateI18n(doc) ==
  LET n == Len(requiredPaths)
  IN IF \E i \in 1..n : PathMissing(doc, requiredPaths[i])
     THEN MissingKey(requiredPaths[CHOOSE i \in 1..n :
            /\ PathMissing(doc, requiredPaths[i])
            /\ \A j \in 1..(i - 1) : ~PathMissing(doc, requiredPaths[j])])
     ELSE IF GetProp(doc, "projects").t # "array" THEN InvalidShape
     ELSE ProjectsError(GetProp(doc, "projects").a)

(* ------------------------------- render -------------------------------- *)

NoAttrs == [a \in {} |-> <<>>]

\* el(tag, options): className, textContent when options.text != null, and
\* the attributes whose value is != null, each converted with String.
el(tag, className, text, attrs) ==
  [tag |-> tag,
   className |-> className,
   text |-> IF IsNullish(text) THEN <<>> ELSE ToText(text),
   attrs |-> [a \in {b \in DOMAIN attrs : ~IsNullish(attrs[b])}
                |-> ToText(attrs[a])],
   children |-> <<>>]

\* node.append(...kids)
AppendTo(node, kids) == [node EXCEPT !.children = node.children \o kids]

\* The body of the loop over i18n.projects: one card, with the action link
\* when project.url is truthy.
Card(doc, project) ==
  LET name == el("h3", "project-name", GetProp(project, "codename"), NoAttrs)
      desc == el("p", "project-desc", GetProp(project, "description"), NoAttrs)
      card == AppendTo(el("article", "project-card", Undefined, NoAttrs),
                       <<name, desc>>)
      visitLabel == getPath(doc, <<"labels", ".", "visit">>)
      link == el("a", "button-link", visitLabel,
                 ("href" :> GetProp(project, "url"))
                   @@ ("target" :> Str(<<"_blank">>))
                   @@ ("rel" :> Str(<<"noopener noreferrer">>))
                   @@ ("aria-label" :>
                         Str(ToText(visitLabel) \o <<": ">>
                               \o ToText(GetProp(project, "codename")))))
      actions == AppendTo(el("div", "project-actions", Undefined, NoAttrs),
                          <<link>>)
  IN IF Truthy(GetProp(project, "url")) THEN AppendTo(card, <<actions>>)
     ELSE card

\* for (const project of i18n.projects) { ...; grid.append(card) }
Cards(doc, entries) == [i \in 1..Len(entries) |-> Card(doc, entries[i])]

\* copyrightTmpl.replace('{year}', String(year)): the first occurrence only.
ReplaceYear(tmpl, year) ==
  LET i == IndexOf(tmpl, "{year}")
  IN IF i = 0 THEN tmpl ELSE [tmpl EXCEPT ![i] = year]

\* copyrightTmpl.replace on a value that is no string.
ReplaceNotAFunction ==
  [name |-> "TypeError", kind |-> "copyrightTmpl.replace is not a function"]

\* for ... of over a value that is no array.
NotIterable ==
  [name |-> "TypeError", kind |-> "i18n.projects is not iterable"]

\* container.append(header, projectsSection, footer)
Container(header, projectsSection, footer) ==
  AppendTo(el("div", "container", Undefined, NoAttrs),
           <<header, projectsSection, footer>>)

\* Mutant: the busy state is cleared without the replacement.
MountBusyOnly(pg, container) == [pg EXCEPT !.busy = "false"]

\* appRoot.replaceChildren(container); appRoot.setAttribute('aria-busy', 'false')
Mount(pg, container) ==
  [pg EXCEPT !.children = <<container>>, !.busy = "false"]

\* render(i18n) in year `year`: the page it leaves and the error it throws
\* (NoError when it returns). The statements act in the order of the code,
\* so a throw keeps the effects of the statements before it.
render(pg, doc, year) ==
  LET titled == [pg EXCEPT
                   !.title = ToText(getPath(doc, <<"site", ".", "title">>))]
      header == AppendTo(
        el("header", "site-header", Undefined, NoAttrs),
        <<el("h1", "title", getPath(doc, <<"site", ".", "title">>), NoAttrs),
          el("p", "tagline", getPath(doc, <<"site", ".", "tagline">>),
             NoAttrs)>>)
      sectionTitle == el("h2", "section-title",
                         getPath(doc, <<"sections", ".", "projects">>), NoAttrs)
      projects == GetProp(doc, "projects")
      grid == AppendTo(el("div", "projects-grid", Undefined, NoAttrs),
                       Cards(doc, projects.a))
      projectsSection == AppendTo(el("section", "projects", Undefined, NoAttrs),
                                  <<sectionTitle, grid>>)
      copyrightTmpl == getPath(doc, <<"footer", ".", "copyright">>)
      footer == AppendTo(
        el("footer", "site-footer", Undefined, NoAttrs),
        <<el("div", "", Str(ReplaceYear(copyrightTmpl.s, year)), NoAttrs)>>)
  IN IF projects.t # "array" THEN [page |-> titled, error |-> NotIterable]
     ELSE IF \E i \in 1..Len(projects.a) : IsNullish(projects.a[i])
     THEN [page |-> titled, error |-> NullProperty("codename")]
     ELSE IF copyrightTmpl.t # "string"
     THEN [page |-> titled, error |-> ReplaceNotAFunction]
     ELSE [page |-> Mount(titled, Container(header, projectsSection, footer)),
           error |-> NoError]

(* ------------------------- bootstrap sequence -------------------------- *)

\* Mutant: render runs whatever validateI18n said.
RunUnvalidated(pg, doc, year) ==
  LET r == render(pg, doc, year)
  IN [page |-> r.page, error |-> r.error,
      calls |-> <<"validateI18n", "render">>, rendered |-> <<doc>>]

\* validateI18n(i18n); render(i18n); -- the page, the error thrown, the
\* calls made and the argument render was called with.
Run(pg, doc, year) ==
  LET v == validateI18n(doc)
      r == render(pg, doc, year)
  IN IF v # NoError
     THEN [page |-> pg, error |-> v, calls |-> <<"validateI18n">>,
           rendered |-> <<>>]
     ELSE [page |-> r.page, error |-> r.error,
           calls |-> <<"validateI18n", "render">>, rendered |-> <<doc>>]

(* ------------------------------- inputs -------------------------------- *)

\* Sequences over S of length at most n.
SeqUpTo(S, n) == UNION {[1..k -> S] : k \in 0..n}

QueryTokens == {"lang", "x", "=", "&", "+"}

\* window.location.search: empty, or "?" and a query of at most MaxQueryLen
\* tokens.
AllSearches ==
  {<<>>} \cup {<<"?">> \o q : q \in SeqUpTo(QueryTokens, MaxQueryLen)}

\* The searches of the whole-sequence specification.
Searches == {<<>>, <<"?", "x", "&", "lang", "=", "%20", "x", "=", "+">>}

\* window.__APP_CONFIG__: absent, without usable values, with both values.
Configs ==
  {Undefined,
   Obj([defaultLanguage |-> Str(<<>>), i18nPath |-> Undefined]),
   Obj([defaultLanguage |-> Str(<<"de">>), i18nPath |-> Str(<<"data">>)])}

\* The configurations of the whole-sequence specification.
SpecConfigs ==
  {Undefined,
   Obj([defaultLanguage |-> Str(<<"de">>), i18nPath |-> Str(<<"data">>)])}

Statuses == {200, 404, 500}

Years == {"2025", "2026"}

Entry(c, d, u) == Obj([codename |-> c, description |-> d, url |-> u])

GoodEntry == Entry(Str(<<"A">>), Str(<<"d">>), Str(<<"u">>))

\* The entries of projects: null, a string, an entry with a url, one with
\* numbers and an empty url, one with a blank description, and the entries
\* whose codename is absent, empty, blank or a text and whose description is
\* null or a text.
Entries ==
  {Null, Str(<<"s">>), GoodEntry,
   Entry(Num("7"), Num("0"), Str(<<>>)),
   Entry(Str(<<"A">>), Str(<<" ", " ">>), Undefined)}
  \cup {Entry(c, d, Undefined) :
          c \in {Undefined, Str(<<>>), Str(<<" ">>), Str(<<"A">>), Str(<<"B">>)},
          d \in {Null, Str(<<"d">>)}}

Document(site, sections, labels, footer, projects) ==
  Obj([site |-> site, sections |-> sections, labels |-> labels,
       footer |-> footer, projects |-> projects])

CopyrightText == Str(<<"(c) ", "{year}", " Acme ", "{year}">>)

\* Documents that differ in the required paths.
PathDocs ==
  {Document(site, sections, labels, footer, projects) :
     site \in {Undefined, Str(<<"s">>)}
              \cup {Obj([title |-> a, tagline |-> b]) :
                      a \in {Undefined, Null, Str(<<"T">>), Num("7")},
                      b \in {Undefined, Str(<<"t">>)}},
     sections \in {Null, Obj([projects |-> Undefined]),
                   Obj([projects |-> Str(<<"P">>)])},
     labels \in {Undefined, Obj([visit |-> Null]),
                 Obj([visit |-> Str(<<"V">>)])},
     footer \in {Undefined, Obj([copyright |-> Undefined]),
                 Obj([copyright |-> CopyrightText]),
                 Obj([copyright |-> Num("2025")])},
     projects \in {Undefined, Str(<<"p">>), Obj([codename |-> Str(<<"A">>)]),
                   Arr(<<>>), Arr(<<Null>>),
                   Arr(<<GoodEntry, Entry(Undefined, Null, Undefined)>>)}}

\* Documents with every required path present that differ in the projects.
ProjectDocs ==
  {Document(Obj([title |-> Str(<<"T">>), tagline |-> Str(<<"t">>)]),
            Obj([projects |-> Str(<<"P">>)]),
            Obj([visit |-> Str(<<"V">>)]),
            Obj([copyright |-> c]),
            Arr(a)) :
     c \in {CopyrightText, Num("2025")},
     a \in SeqUpTo(Entries, MaxProjects)}

\* What response.json() can return.
Docs == {Null, Str(<<"s">>), Arr(<<>>)} \cup PathDocs \cup ProjectDocs

(* ------------------------------ the page ------------------------------- *)

\* The static shell: the title and the children of #app before the script
\* runs, with the busy state set.
Shell ==
  [title |-> <<"shell">>,
   children |-> <<el("p", "loading", Undefined, NoAttrs)>>,
   busy |-> "true"]

InitWith(S, C) ==
  /\ search \in S
  /\ config \in C
  /\ pc = "start"
  /\ language = Undefined
  /\ url = <<>>
  /\ net = [fetch |-> "none", status |-> 0, body |-> "none"]
  /\ fetches = 0
  /\ calls = <<>>
  /\ i18n = Undefined
  /\ rendered = <<>>
  /\ error = NoError
  /\ page = Shell
  /\ console = <<>>

Init == InitWith(Searches, SpecConfigs)

InitLang == InitWith(AllSearches, Configs)

\* The async function up to its first await: getLanguage(), then loadI18n
\* builds the location and issues the fetch.
Bootstrap ==
  /\ pc = "start"
  /\ language' = getLanguage(search, config)
  /\ url' = ResourceUrl(config, language')
  /\ net' = [net EXCEPT !.fetch = "pending"]
  /\ fetches' = fetches + 1
  /\ calls' = calls \o <<"getLanguage", "loadI18n">>
  /\ pc' = "fetching"
  /\ UNCHANGED <<search, config, i18n, rendered, error, page, console>>

\* fetch rejects: nothing in loadI18n catches it.
FetchRejected ==
  /\ pc = "fetching"
  /\ net' = [net EXCEPT !.fetch = "rejected"]
  /\ error' = FetchFailed
  /\ pc' = "rejected"
  /\ UNCHANGED <<search, config, language, url, fetches, calls, i18n,
                 rendered, page, console>>

\* fetch resolves with a response: thrown out when the status is no
\* success, else response.json() is awaited.
FetchResolved ==
  /\ pc = "fetching"
  /\ \E status \in Statuses :
       /\ net' = [net EXCEPT !.fetch = "resolved", !.status = status]
       /\ error' = StatusError(url, status)
       /\ pc' = IF error' # NoError THEN "rejected" ELSE "parsing"
  /\ UNCHANGED <<search, config, language, url, fetches, calls, i18n,
                 rendered, page, console>>

\* response.json() rejects: the catch of loadI18n throws the malformed error.
JsonRejected ==
  /\ pc = "parsing"
  /\ net' = [net EXCEPT !.body = "unparseable"]
  /\ error' = MalformedResource(language)
  /\ pc' = "rejected"
  /\ UNCHANGED <<search, config, language, url, fetches, calls, i18n,
                 rendered, page, console>>

\* response.json() resolves: loadI18n returns the document, and the
\* sequence validates and renders it in the same turn.
JsonResolved ==
  /\ pc = "parsing"
  /\ \E doc \in Docs, year \in Years :
       LET r == Run(page, doc, year)
       IN /\ i18n' = doc
          /\ net' = [net EXCEPT !.body = "parsed"]
          /\ page' = r.page
          /\ error' = r.error
          /\ calls' = calls \o r.calls
          /\ rendered' = rendered \o r.rendered
          /\ pc' = IF r.error # NoError THEN "rejected" ELSE "fulfilled"
  /\ UNCHANGED <<search, config, language, url, fetches, console>>

\* .catch((error) => console.error(error))
Catch ==
  /\ pc = "rejected"
  /\ console' = Append(console, error)
  /\ pc' = "reported"
  /\ UNCHANGED <<search, config, language, url, net, fetches, calls, i18n,
                 rendered, error, page>>

Next ==
  \/ Bootstrap
  \/ FetchRejected
  \/ FetchResolved
  \/ JsonRejected
  \/ JsonResolved
  \/ Catch

Spec == Init /\ [][Next]_vars

NextLang == Bootstrap

SpecLang == InitLang /\ [][NextLang]_vars

(* ============================== claims ================================= *)

Settled == pc \in {"rejected", "reported", "fulfilled"}

Failed == pc \in {"rejected", "reported"}

(* ---- the query as the claims read it ---- *)

Query == IF search # <<>> /\ Head(search) = "?" THEN Tail(search) ELSE search

\* A parameter named lang starts at position i of the query.
LangParamAt(i) ==
  /\ Query[i] = "lang"
  /\ i = 1 \/ Query[i - 1] = "&"
  /\ i = Len(Query) \/ Query[i + 1] \in {"=", "&"}

HasLang == \E i \in 1..Len(Query) : LangParamAt(i)

FirstLang ==
  CHOOSE i \in 1..Len(Query) :
    LangParamAt(i) /\ \A j \in 1..(i - 1) : ~LangParamAt(j)

\* X: the text after "lang=" of the first lang parameter up to the next "&",
\* with "+" read as a space.
LangValue ==
  LET i == FirstLang
      stops == {k \in (i + 2)..Len(Query) : Query[k] = "&"}
      last == IF stops = {} THEN Len(Query)
              ELSE (CHOOSE k \in stops : \A m \in stops : k <= m) - 1
      raw == IF i = Len(Query) \/ Query[i + 1] = "&" THEN <<>>
             ELSE SubSeq(Query, i + 2, last)
  IN [k \in 1..Len(raw) |-> IF raw[k] = "+" THEN " " ELSE raw[k]]

NonBlank(x) == \E k \in 1..Len(x) : x[k] # " "

\* t is x without its leading and trailing spaces.
IsTrimOf(t, x) ==
  /\ t # <<>>
  /\ t[1] # " " /\ t[Len(t)] # " "
  /\ \E a \in 0..Len(x) :
       /\ a + Len(t) <= Len(x)
       /\ SubSeq(x, a + 1, a + Len(t)) = t
       /\ \A k \in 1..Len(x) : (k <= a \/ k > a + Len(t)) => x[k] = " "

\* C2 as stated: when the query holds lang=X with X not blank, getLanguage
\* returns X unchanged.
C2_Verbatim ==
  (pc = "fetching" /\ HasLang /\ NonBlank(LangValue))
    => language = Str(LangValue)

\* C2 amended: when the first lang parameter of the query has a value X that
\* is not blank, getLanguage returns X without its leading and trailing
\* whitespace, whatever else the query holds and whatever the configured
\* default language is.
C2_Trimmed ==
  (pc = "fetching" /\ HasLang /\ NonBlank(LangValue))
    => language.t = "string" /\ IsTrimOf(language.s, LangValue)

\* A query with other parameters and a lang value that starts with a space,
\* under a configured default: the trimmed value was returned.
C2_Witness ==
  /\ pc = "fetching" /\ HasLang /\ NonBlank(LangValue)
  /\ Query[1] = "x" /\ FirstLang > 1
  /\ LangValue[1] = " "
  /\ language # Str(LangValue)
  /\ IsTrimOf(language.s, LangValue)
  /\ Truthy(config) /\ GetProp(config, "defaultLanguage") = Str(<<"de">>)

(* ---- the document as the claims read it ---- *)

RequiredKeys ==
  << <<"site", "title">>, <<"site", "tagline">>, <<"sections", "projects">>,
     <<"labels", "visit">>, <<"footer", "copyright">>, <<"projects">> >>

RequiredNames ==
  << <<"site", ".", "title">>, <<"site", ".", "tagline">>,
     <<"sections", ".", "projects">>, <<"labels", ".", "visit">>,
     <<"footer", ".", "copyright">>, <<"projects">> >>

\* The k-th required path resolves to an absent value in doc: the document,
\* the first key or the second key is null or undefined.
Absent(doc, k) ==
  LET keys == RequiredKeys[k]
      first == IF doc.t = "object" THEN doc.o[keys[1]] ELSE Undefined
  IN \/ first.t \in {"undefined", "null"}
     \/ /\ Len(keys) = 2
        /\ (IF first.t = "object" THEN first.o[keys[2]] ELSE Undefined).t
             \in {"undefined", "null"}

AllPresent(doc) == \A k \in 1..Len(RequiredKeys) : ~Absent(doc, k)

ProjectsOf(doc) == doc.o["projects"]

\* Key number f (1 codename, 2 description) of entry e is absent, empty or
\* blank after conversion to text.
Defective(e, f) ==
  LET key == <<"codename", "description">>[f]
      v == IF e.t = "object" THEN e.o[key] ELSE Undefined
  IN v.t \in {"undefined", "null"} \/ ~NonBlank(ToText(v))

\* The positions (entry i from 1, key f) of the defective fields.
Defects(doc) ==
  {d \in (1..Len(ProjectsOf(doc).a)) \X {1, 2} :
     Defective(ProjectsOf(doc).a[d[1]], d[2])}

FirstDefect(doc) ==
  CHOOSE d \in Defects(doc) :
    \A e \in Defects(doc) : d[1] < e[1] \/ (d[1] = e[1] /\ d[2] <= e[2])

MissingFieldAt(d) ==
  [name |-> "Error", kind |-> "Project is missing key",
   index |-> d[1] - 1, key |-> <<"codename", "description">>[d[2]]]

\* C3: when a required path is absent (and none before it is), validation
\* fails with the missing-key error naming exactly that path, nothing is
\* rendered, and this holds for every validation of such a document.
C3_MissingKey ==
  net.body = "parsed" =>
    \A k \in 1..Len(RequiredKeys) :
      (Absent(i18n, k) /\ \A j \in 1..(k - 1) : ~Absent(i18n, j))
        => /\ Failed
           /\ error = [name |-> "Error", kind |-> "Missing i18n key",
                       path |-> RequiredNames[k]]
           /\ rendered = <<>>

\* Only labels.visit is absent, because labels itself is absent, and the
\* error names labels.visit.
C3_Witness ==
  /\ net.body = "parsed" /\ Failed
  /\ i18n.t = "object" /\ i18n.o["labels"] = Undefined
  /\ \A k \in 1..Len(RequiredKeys) : Absent(i18n, k) <=> k = 4
  /\ error.kind = "Missing i18n key"
  /\ error.path = <<"labels", ".", "visit">>

\* C4 as stated: with the six paths present and projects an array, a
\* defective codename or description of an entry (a null or non-object
\* entry included) fails validation with the missing-project-field error of
\* that entry's index and field.
C4_MissingProjectField ==
  (/\ net.body = "parsed"
   /\ AllPresent(i18n)
   /\ ProjectsOf(i18n).t = "array"
   /\ Defects(i18n) # {})
    => Failed /\ error = MissingFieldAt(FirstDefect(i18n))

\* The number of defects of a document: absent required paths, a projects
\* value that is present and no array, defective fields of the entries.
NumDefects(doc) ==
  Cardinality({k \in 1..Len(RequiredKeys) : Absent(doc, k)})
    + (IF ~Absent(doc, 6) /\ ProjectsOf(doc).t # "array" THEN 1 ELSE 0)
    + (IF ~Absent(doc, 6) /\ ProjectsOf(doc).t = "array"
       THEN Cardinality(Defects(doc)) ELSE 0)

\* The first failure in the order: required paths, shape of projects,
\* entries by index with codename before description.
FirstFailure(doc) ==
  IF ~AllPresent(doc)
  THEN [name |-> "Error", kind |-> "Missing i18n key",
        path |-> RequiredNames[CHOOSE k \in 1..Len(RequiredKeys) :
                   Absent(doc, k) /\ \A j \in 1..(k - 1) : ~Absent(doc, j)]]
  ELSE IF ProjectsOf(doc).t # "array"
  THEN [name |-> "Error", kind |-> "i18n.projects must be an array"]
  ELSE MissingFieldAt(FirstDefect(doc))

\* C10 as stated: a document with more than one defect is rejected with the
\* first failure of the fixed order alone, and is left as it was.
C10_FirstFailure ==
  (net.body = "parsed" /\ NumDefects(i18n) > 1)
    => Failed /\ error = FirstFailure(i18n) /\ rendered = <<>>

(* ---- the loader as the claims read it ---- *)

\* '{i18nPath}/{percent-encoded language}.json'
ExpectedUrl ==
  LET base == IF config.t = "object" /\ config.o["i18nPath"].t = "string"
                   /\ config.o["i18nPath"].s # <<>>
              THEN config.o["i18nPath"].s ELSE <<"i18n">>
  IN base \o <<"/">> \o encodeURIComponent(language.s) \o <<".json">>

Reserved == {" ", "=", "+", "&", "?", "/", ","}

Unavailable ==
  /\ error.name = "Error"
  /\ error.kind = "Failed to load i18n resource"
  /\ error.url = ExpectedUrl
  /\ \A k \in 3..(Len(error.url) - 1) : error.url[k] \notin Reserved
  /\ error.status = net.status

Malformed ==
  /\ error.name = "Error"
  /\ error.kind = "Malformed i18n JSON for language"
  /\ error.language = language.s

\* The loader returned the parsed structure: validation was the next step.
Returned ==
  /\ "validateI18n" \in {calls[k] : k \in 1..Len(calls)}
  /\ i18n \in Docs

\* C5 as stated: a request that does not succeed (a response of no success
\* status, or a failure of the fetch itself) fails with the unavailable
\* error carrying location and status, an unparseable body with the
\* malformed error carrying the language, anything else returns the parsed
\* structure.
C5_ThreeOutcomes ==
  /\ net.fetch = "rejected" => Failed /\ Unavailable
  /\ (net.fetch = "resolved" /\ (net.status < 200 \/ net.status > 299))
       => Failed /\ Unavailable
  /\ net.body = "unparseable" => Failed /\ Malformed
  /\ net.body = "parsed" => Returned

\* C5 amended: a response of no success status fails with the unavailable
\* error carrying location and status; a failure of the fetch itself
\* escapes the loader as the fetch's own error, with no location and no
\* status; an unparseable body of a successful response fails with the
\* malformed error carrying the language; otherwise the parsed structure is
\* returned unvalidated.
C5_FourOutcomes ==
  /\ net.fetch = "rejected"
       => Failed /\ error = [name |-> "TypeError", kind |-> "Failed to fetch"]
                 /\ i18n = Undefined
  /\ (net.fetch = "resolved" /\ (net.status < 200 \/ net.status > 299))
       => Failed /\ Unavailable /\ net.body = "none" /\ i18n = Undefined
  /\ net.body = "unparseable" => Failed /\ Malformed /\ i18n = Undefined
  /\ net.body = "parsed" => Returned
  /\ (Settled /\ net.fetch = "resolved" /\ net.status >= 200
        /\ net.status <= 299) => net.body \in {"unparseable", "parsed"}

\* A 404 for a language whose text needs escaping: the error carries the
\* escaped location under the configured path and the status.
C5_Witness ==
  /\ Failed /\ net.fetch = "resolved" /\ net.status = 404
  /\ language = Str(<<"x", "=">>)
  /\ error.kind = "Failed to load i18n resource"
  /\ error.url = <<"data", "/", "x", "%3D", ".json">>
  /\ error.status = 404

(* ---- the page as the claims read it ---- *)

Mounted ==
  /\ Len(page.children) = 1
  /\ page.children[1].className = "container"

\* The texts of the mounted cards, in order: codename and description.
MountedCards ==
  IF Mounted /\ Len(page.children[1].children) >= 2
       /\ Len(page.children[1].children[2].children) = 2
  THEN LET cards == page.children[1].children[2].children[2].children
       IN [k \in 1..Len(cards) |->
             IF cards[k].className = "project-card"
                  /\ Len(cards[k].children) >= 2
             THEN <<cards[k].children[1].text, cards[k].children[2].text>>
             ELSE <<>>]
  ELSE <<>>

Accepted(doc) ==
  AllPresent(doc) /\ ProjectsOf(doc).t = "array" /\ Defects(doc) = {}

ExpectedCards(doc) ==
  [k \in 1..Len(ProjectsOf(doc).a) |->
     <<ToText(ProjectsOf(doc).a[k].o["codename"]),
       ToText(ProjectsOf(doc).a[k].o["description"])>>]

\* The complete rendered tree of doc: one container holding the header with
\* title and tagline, the projects section with its heading and one card
\* per entry, and the footer with its text.
CompleteTree(doc) ==
  /\ Mounted
  /\ LET kids == page.children[1].children
     IN /\ Len(kids) = 3
        /\ kids[1].tag = "header" /\ Len(kids[1].children) = 2
        /\ kids[1].children[1].text = ToText(doc.o["site"].o["title"])
        /\ kids[1].children[2].text = ToText(doc.o["site"].o["tagline"])
        /\ kids[2].tag = "section" /\ Len(kids[2].children) = 2
        /\ kids[2].children[1].text = ToText(doc.o["sections"].o["projects"])
        /\ kids[3].tag = "footer" /\ Len(kids[3].children) = 1
        /\ kids[3].children[1].text # <<>>
  /\ MountedCards = ExpectedCards(doc)

\* C6 as stated: every accepted document with N projects ends with exactly
\* N cards mounted, the i-th showing the text of the i-th codename and
\* description.
C6_RoundTrip ==
  (Settled /\ net.body = "parsed" /\ Accepted(i18n))
    => MountedCards = ExpectedCards(i18n)

\* C7 as stated: render raises no error on a document validation accepted.
C7_ValidationSufficient ==
  (Settled /\ net.body = "parsed" /\ Accepted(i18n)) => pc = "fulfilled"

\* C1 as stated: when any step raised an error the page is as it was before
\* the script ran (children, title, busy state) and the error was reported
\* once to the console and nowhere else.
C1_FailClosed ==
  /\ Failed => page = Shell
  /\ pc = "reported" => console = <<error>>
  /\ pc # "reported" => console = <<>>

\* C8: the calls made are a prefix of getLanguage, loadI18n, validateI18n,
\* render; one fetch is issued once the sequence has started and never a
\* second; validateI18n runs only on the document the loader returned, and
\* render only on that same document and only when validation accepted it.
C8_StepOrder ==
  /\ \E n \in 0..4 :
       calls = SubSeq(<<"getLanguage", "loadI18n", "validateI18n", "render">>,
                      1, n)
  /\ fetches = (IF pc = "start" THEN 0 ELSE 1)
  /\ Len(calls) >= 3 <=> net.body = "parsed"
  /\ Len(rendered) <= 1
  /\ Len(calls) = 4 <=> rendered = <<i18n>>
  /\ Len(calls) = 4 => Accepted(i18n)
  /\ (Len(calls) = 3 /\ Settled) => ~Accepted(i18n)

\* A page load that went through the four steps on a document with cards.
C8_Witness ==
  /\ pc = "fulfilled"
  /\ calls = <<"getLanguage", "loadI18n", "validateI18n", "render">>
  /\ fetches = 1
  /\ rendered = <<i18n>>
  /\ Len(ProjectsOf(i18n).a) = MaxProjects

C9_State ==
  /\ page.children = Shell.children \/ CompleteTree(i18n)
  /\ page.busy = "false" => CompleteTree(i18n)

\* C9: the children of the mount point are always those of the shell or
\* the complete rendered tree, they change at most once (from the shell to
\* the complete tree), and aria-busy is 'false' only with the complete tree
\* mounted.
C9_AtomicMount ==
  /\ []C9_State
  /\ [][page'.children # page.children
          => page.children = Shell.children /\ page'.busy = "false"]_vars

\* The complete tree of a document with cards is mounted and the busy state
\* cleared.
C9_Witness ==
  /\ pc = "fulfilled"
  /\ page.busy = "false"
  /\ CompleteTree(i18n)
  /\ Len(MountedCards) = MaxProjects
  /\ page.children # Shell.children

====
